---- MODULE Spec2Model ----
(***************************************************************************)
(* Retry policies of gax/retry_policy.h:                                   *)
(*   LimitedErrorCountRetryPolicy  ("count errors and then stop")          *)
(*   LimitedDurationRetryPolicy    ("keep trying for this time")           *)
(* Policy objects live in a store indexed by instance id; every data       *)
(* member of the two classes is one function from instance id to value.    *)
(* Time is counted in milliseconds (the unit of max_duration_).            *)
(***************************************************************************)
EXTENDS Integers, Sequences, FiniteSets, TLC

VARIABLES
  intBits,          \* width of the C++ type int on the build
  aborted,          \* the process was stopped by a trapping signed overflow
  clock,            \* the value Clock::now() returns
  failure_count_,   \* LimitedErrorCountRetryPolicy::failure_count_, per instance
  max_failures_,    \* LimitedErrorCountRetryPolicy::max_failures_, per instance
  max_duration_,    \* LimitedDurationRetryPolicy::max_duration_, per instance
  deadline_,        \* LimitedDurationRetryPolicy::deadline_, per instance
  origin,           \* history: the instance a clone was taken from, 0 if constructed
  arg,              \* history: the argument the instance's constructor was given
  made,             \* history: how the instance came to be
  born,             \* history: Clock::now() when a duration instance was constructed
  log               \* history: per instance, the OnFailure calls made on it

vars == <<intBits, aborted, clock, failure_count_, max_failures_,
          max_duration_, deadline_, origin, arg, made, born, log>>

----------------------------------------------------------------------------
(* Bounds of the model *)

MaxInstances == 2
MaxCalls == 4
MaxClock == 2
MaxMaxFailures == 3
MaxMaxDuration == 1

(* Width of int on the usual builds *)
IntBits == 32

(* A narrow int, with which a run of the model reaches INT_MAX *)
NarrowBits == 2

(* Statuses: StatusType is opaque to the policies, only the classifier    *)
(* RetryablePolicy::IsPermanentFailure looks at it.                        *)
Statuses == {"UNAVAILABLE", "PERMISSION_DENIED"}
PermanentStatuses == {"PERMISSION_DENIED"}

IsPermanentFailure(status) == status \in PermanentStatuses

MaxFailuresArgs == (-1) .. MaxMaxFailures
MaxDurationArgs == (-1) .. MaxMaxDuration

----------------------------------------------------------------------------
(* int arithmetic *)

INT_MAX(bits) == (2^(bits - 2) - 1) + 2^(bits - 2)
INT_MIN(bits) == (-INT_MAX(bits)) - 1

(* x++ on an int: the value of the expression is the old x.  At INT_MAX   *)
(* the increment overflows, which is undefined: the build either wraps    *)
(* (two's complement) or traps.                                           *)
PostIncrement(x, bits) ==
  IF x < INT_MAX(bits)
  THEN {[value |-> x, stored |-> x + 1, trap |-> FALSE]}
  ELSE {[value |-> x, stored |-> INT_MIN(bits), trap |-> FALSE],
        [value |-> x, stored |-> x, trap |-> TRUE]}

----------------------------------------------------------------------------
(* LimitedErrorCountRetryPolicy *)

(* Variant: a negative limit is clamped to zero *)
CountCtorClamped(max_failures) ==
  [failure_count_ |-> 0,
   max_failures_ |-> IF max_failures < 0 THEN 0 ELSE max_failures]

CountCtor(max_failures) ==
  [failure_count_ |-> 0, max_failures_ |-> max_failures]

(* Variant: the defaulted, member-wise copy *)
CountCopyCtorMemberwise(rhs) == rhs

CountCopyCtor(rhs) == CountCtor(rhs.max_failures_)

(* Variant: the move hands the progress over and resets the source *)
CountMoveCtorTransfer(rhs) ==
  [this |-> rhs, rhs |-> [rhs EXCEPT !.failure_count_ = 0]]

(* The move constructor: the new object, and rhs as the move leaves it *)
CountMoveCtor(rhs) ==
  [this |-> CountCtor(rhs.max_failures_), rhs |-> rhs]

CountClone(this) == CountCopyCtor(this)

(* Variant: ++failure_count_ in place of failure_count_++ *)
CountOnFailurePreIncrement(this, status, bits) ==
  IF IsPermanentFailure(status)
  THEN {[result |-> FALSE, this |-> this, trap |-> FALSE]}
  ELSE {[result |-> inc.stored < this.max_failures_,
         this   |-> [this EXCEPT !.failure_count_ = inc.stored],
         trap   |-> inc.trap] : inc \in PostIncrement(this.failure_count_, bits)}

(* Variant: <= in place of < *)
CountOnFailureLessEqual(this, status, bits) ==
  IF IsPermanentFailure(status)
  THEN {[result |-> FALSE, this |-> this, trap |-> FALSE]}
  ELSE {[result |-> inc.value <= this.max_failures_,
         this   |-> [this EXCEPT !.failure_count_ = inc.stored],
         trap   |-> inc.trap] : inc \in PostIncrement(this.failure_count_, bits)}

(* Variant: the classifier is not consulted *)
CountOnFailureNoClassifier(this, status, bits) ==
  {[result |-> inc.value < this.max_failures_,
    this   |-> [this EXCEPT !.failure_count_ = inc.stored],
    trap   |-> inc.trap] : inc \in PostIncrement(this.failure_count_, bits)}

(* Variant: the operands of && swapped, so the count is taken first *)
CountOnFailureCountFirst(this, status, bits) ==
  {[result |-> (inc.value < this.max_failures_) /\ ~IsPermanentFailure(status),
    this   |-> [this EXCEPT !.failure_count_ = inc.stored],
    trap   |-> inc.trap] : inc \in PostIncrement(this.failure_count_, bits)}

(* Variant: the count is incremented only when the retry is granted *)
CountOnFailureCountGranted(this, status, bits) ==
  IF IsPermanentFailure(status)
  THEN {[result |-> FALSE, this |-> this, trap |-> FALSE]}
  ELSE IF this.failure_count_ < this.max_failures_
       THEN {[result |-> TRUE,
              this   |-> [this EXCEPT !.failure_count_ = inc.stored],
              trap   |-> inc.trap] : inc \in PostIncrement(this.failure_count_, bits)}
       ELSE {[result |-> FALSE, this |-> this, trap |-> FALSE]}

(* The possible outcomes of OnFailure(status) on the object `this`.       *)
CountOnFailure(this, status, bits) ==
  IF IsPermanentFailure(status)
  THEN {[result |-> FALSE, this |-> this, trap |-> FALSE]}
  ELSE {[result |-> inc.value < this.max_failures_,
         this   |-> [this EXCEPT !.failure_count_ = inc.stored],
         trap   |-> inc.trap] : inc \in PostIncrement(this.failure_count_, bits)}

----------------------------------------------------------------------------
(* LimitedDurationRetryPolicy *)

(* Variant: the deadline is the construction time, max_duration left out *)
DurationCtorDeadlineNow(max_duration, now) ==
  [max_duration_ |-> max_duration, deadline_ |-> now]

DurationCtor(max_duration, now) ==
  [max_duration_ |-> max_duration, deadline_ |-> max_duration + now]

(* Variant: the defaulted, member-wise copy *)
DurationCopyCtorMemberwise(rhs, now) == rhs

DurationCopyCtor(rhs, now) == DurationCtor(rhs.max_duration_, now)

(* The move constructor: the new object, and rhs as the move leaves it *)
DurationMoveCtor(rhs, now) ==
  [this |-> DurationCtor(rhs.max_duration_, now), rhs |-> rhs]

DurationClone(this, now) == DurationCopyCtor(this, now)

(* Variant: <= in place of < *)
DurationOnFailureLessEqual(this, status, now) ==
  (~IsPermanentFailure(status)) /\ now <= this.deadline_

(* Variant: the classifier is not consulted *)
DurationOnFailureNoClassifier(this, status, now) == now < this.deadline_

(* Variant: the comparison the wrong way round *)
DurationOnFailureReversed(this, status, now) ==
  (~IsPermanentFailure(status)) /\ this.deadline_ < now

DurationOnFailure(this, status, now) ==
  (~IsPermanentFailure(status)) /\ now < this.deadline_

----------------------------------------------------------------------------
(* The object store *)

CountIds == DOMAIN failure_count_
DurationIds == DOMAIN max_duration_
Ids == DOMAIN log

CountObject(i) ==
  [failure_count_ |-> failure_count_[i], max_failures_ |-> max_failures_[i]]

DurationObject(i) ==
  [max_duration_ |-> max_duration_[i], deadline_ |-> deadline_[i]]

(* Variant: the member is static, one value shared by all instances *)
StoreMemberStatic(m, self, v) == [j \in DOMAIN m |-> v]

(* A write to the data member m of the object self *)
StoreMember(m, self, v) == [m EXCEPT ![self] = v]

RECURSIVE CallsUpTo(_)
CallsUpTo(n) == IF n = 0 THEN 0 ELSE Len(log[n]) + CallsUpTo(n - 1)

TotalCalls == CallsUpTo(Cardinality(Ids))

NewId == Cardinality(Ids) + 1

(* "The application provides an instance of this class when the client is  *)
(* created": one policy is constructed from an argument, every later       *)
(* instance is a clone.                                                    *)
CanConstruct == (~aborted) /\ Ids = {}
CanAllocate == (~aborted) /\ Cardinality(Ids) < MaxInstances
CanCall == (~aborted) /\ TotalCalls < MaxCalls

(* History of a construction: where the instance came from, what its     *)
(* constructor was given, no calls yet                                    *)
RecordAs(id, from, given, how) ==
  /\ origin' = origin @@ (id :> from)
  /\ arg' = arg @@ (id :> given)
  /\ made' = made @@ (id :> how)
  /\ log' = log @@ (id :> <<>>)

Record(id, from, given) ==
  RecordAs(id, from, given, IF from = 0 THEN "constructor" ELSE "clone")

----------------------------------------------------------------------------
(* Actions *)

Init ==
  /\ intBits = IntBits
  /\ aborted = FALSE
  /\ clock = 0
  /\ failure_count_ = <<>>
  /\ max_failures_ = <<>>
  /\ max_duration_ = <<>>
  /\ deadline_ = <<>>
  /\ origin = <<>>
  /\ arg = <<>>
  /\ made = <<>>
  /\ born = <<>>
  /\ log = <<>>

(* new LimitedErrorCountRetryPolicy(max_failures) *)
NewCount(max_failures) ==
  /\ CanConstruct
  /\ INT_MIN(intBits) <= max_failures /\ max_failures <= INT_MAX(intBits)
  /\ LET obj == CountCtor(max_failures) IN
       /\ failure_count_' = failure_count_ @@ (NewId :> obj.failure_count_)
       /\ max_failures_' = max_failures_ @@ (NewId :> obj.max_failures_)
  /\ Record(NewId, 0, max_failures)
  /\ UNCHANGED <<intBits, aborted, clock, max_duration_, deadline_, born>>

(* src.clone() on a LimitedErrorCountRetryPolicy *)
CloneCount(src) ==
  /\ CanAllocate
  /\ LET obj == CountClone(CountObject(src)) IN
       /\ failure_count_' = failure_count_ @@ (NewId :> obj.failure_count_)
       /\ max_failures_' = max_failures_ @@ (NewId :> obj.max_failures_)
  /\ Record(NewId, src, max_failures_[src])
  /\ UNCHANGED <<intBits, aborted, clock, max_duration_, deadline_, born>>

(* The effect of self.OnFailure(status) on a LimitedErrorCountRetryPolicy *)
CallOnFailureCount(self, status) ==
  /\ \E o \in CountOnFailure(CountObject(self), status, intBits) :
       /\ failure_count_' = StoreMember(failure_count_, self, o.this.failure_count_)
       /\ aborted' = o.trap
       /\ log' = IF o.trap THEN log
                 ELSE [log EXCEPT ![self] =
                         Append(@, [status |-> status, result |-> o.result])]
  /\ UNCHANGED <<intBits, clock, max_failures_, max_duration_, deadline_,
                 origin, arg, made, born>>

(* self.OnFailure(status) on a LimitedErrorCountRetryPolicy *)
OnFailureCount(self, status) ==
  /\ CanCall
  /\ CallOnFailureCount(self, status)

(* new LimitedDurationRetryPolicy(max_duration) *)
NewDuration(max_duration) ==
  /\ CanConstruct
  /\ LET obj == DurationCtor(max_duration, clock) IN
       /\ max_duration_' = max_duration_ @@ (NewId :> obj.max_duration_)
       /\ deadline_' = deadline_ @@ (NewId :> obj.deadline_)
  /\ Record(NewId, 0, max_duration)
  /\ born' = born @@ (NewId :> clock)
  /\ UNCHANGED <<intBits, aborted, clock, failure_count_, max_failures_>>

(* src.clone() on a LimitedDurationRetryPolicy *)
CloneDuration(src) ==
  /\ CanAllocate
  /\ LET obj == DurationClone(DurationObject(src), clock) IN
       /\ max_duration_' = max_duration_ @@ (NewId :> obj.max_duration_)
       /\ deadline_' = deadline_ @@ (NewId :> obj.deadline_)
  /\ Record(NewId, src, max_duration_[src])
  /\ born' = born @@ (NewId :> clock)
  /\ UNCHANGED <<intBits, aborted, clock, failure_count_, max_failures_>>

(* self.OnFailure(status) on a LimitedDurationRetryPolicy *)
OnFailureDuration(self, status) ==
  /\ CanCall
  /\ LET result == DurationOnFailure(DurationObject(self), status, clock) IN
       log' = [log EXCEPT ![self] =
                 Append(@, [status |-> status, result |-> result])]
  /\ UNCHANGED <<intBits, aborted, clock, failure_count_, max_failures_,
                 max_duration_, deadline_, origin, arg, made, born>>

(* Time passes *)
Tick ==
  /\ ~aborted
  /\ clock < MaxClock
  /\ clock' = clock + 1
  /\ UNCHANGED <<intBits, aborted, failure_count_, max_failures_,
                 max_duration_, deadline_, origin, arg, made, born, log>>

Next ==
  \/ \E m \in MaxFailuresArgs : NewCount(m)
  \/ \E src \in CountIds : CloneCount(src)
  \/ \E self \in CountIds, status \in Statuses : OnFailureCount(self, status)
  \/ \E d \in MaxDurationArgs : NewDuration(d)
  \/ \E src \in DurationIds : CloneDuration(src)
  \/ \E self \in DurationIds, status \in Statuses : OnFailureDuration(self, status)
  \/ Tick

Spec == Init /\ [][Next]_vars

(* The same program built with the narrow int *)
InitNarrow ==
  /\ intBits = NarrowBits
  /\ aborted = FALSE
  /\ clock = 0
  /\ failure_count_ = <<>>
  /\ max_failures_ = <<>>
  /\ max_duration_ = <<>>
  /\ deadline_ = <<>>
  /\ origin = <<>>
  /\ arg = <<>>
  /\ made = <<>>
  /\ born = <<>>
  /\ log = <<>>

SpecNarrow == InitNarrow /\ [][Next]_vars

----------------------------------------------------------------------------
(* Copies and moves of policy objects *)

(* LimitedErrorCountRetryPolicy b(src) *)
CopyCount(src) ==
  /\ CanAllocate
  /\ LET obj == CountCopyCtor(CountObject(src)) IN
       /\ failure_count_' = failure_count_ @@ (NewId :> obj.failure_count_)
       /\ max_failures_' = max_failures_ @@ (NewId :> obj.max_failures_)
  /\ RecordAs(NewId, src, max_failures_[src], "copy")
  /\ UNCHANGED <<intBits, aborted, clock, max_duration_, deadline_, born>>

(* LimitedErrorCountRetryPolicy b(std::move(src)) *)
MoveCount(src) ==
  /\ CanAllocate
  /\ LET o == CountMoveCtor(CountObject(src)) IN
       /\ failure_count_' =
            StoreMember(failure_count_, src, o.rhs.failure_count_)
              @@ (NewId :> o.this.failure_count_)
       /\ max_failures_' =
            StoreMember(max_failures_, src, o.rhs.max_failures_)
              @@ (NewId :> o.this.max_failures_)
  /\ RecordAs(NewId, src, max_failures_[src], "move")
  /\ UNCHANGED <<intBits, aborted, clock, max_duration_, deadline_, born>>

(* LimitedDurationRetryPolicy b(src) *)
CopyDuration(src) ==
  /\ CanAllocate
  /\ LET obj == DurationCopyCtor(DurationObject(src), clock) IN
       /\ max_duration_' = max_duration_ @@ (NewId :> obj.max_duration_)
       /\ deadline_' = deadline_ @@ (NewId :> obj.deadline_)
  /\ RecordAs(NewId, src, max_duration_[src], "copy")
  /\ born' = born @@ (NewId :> clock)
  /\ UNCHANGED <<intBits, aborted, clock, failure_count_, max_failures_>>

(* LimitedDurationRetryPolicy b(std::move(src)) *)
MoveDuration(src) ==
  /\ CanAllocate
  /\ LET o == DurationMoveCtor(DurationObject(src), clock) IN
       /\ max_duration_' =
            StoreMember(max_duration_, src, o.rhs.max_duration_)
              @@ (NewId :> o.this.max_duration_)
       /\ deadline_' =
            StoreMember(deadline_, src, o.rhs.deadline_)
              @@ (NewId :> o.this.deadline_)
  /\ RecordAs(NewId, src, max_duration_[src], "move")
  /\ born' = born @@ (NewId :> clock)
  /\ UNCHANGED <<intBits, aborted, clock, failure_count_, max_failures_>>

(* Copies and moves in place of clone() *)
NextCopy ==
  \/ \E m \in MaxFailuresArgs : NewCount(m)
  \/ \E d \in MaxDurationArgs : NewDuration(d)
  \/ \E self \in CountIds, status \in Statuses : OnFailureCount(self, status)
  \/ \E self \in DurationIds, status \in Statuses : OnFailureDuration(self, status)
  \/ Tick
  \/ \E src \in CountIds : CopyCount(src)
  \/ \E src \in CountIds : MoveCount(src)
  \/ \E src \in DurationIds : CopyDuration(src)
  \/ \E src \in DurationIds : MoveDuration(src)

SpecCopy == Init /\ [][NextCopy]_vars

----------------------------------------------------------------------------
(* The retry loop of an RPC client.  The client holds one policy per      *)
(* operation; after each failed attempt it calls OnFailure once, makes    *)
(* another attempt when the result is true and gives up when it is false. *)
(* Every attempt fails here, the case in which only the policy ends the   *)
(* loop.                                                                  *)

(* The loop driven by instance i has not given up *)
LoopRunning(i) == IF log[i] = <<>> THEN TRUE ELSE log[i][Len(log[i])].result

(* An attempt of the loop on `self` fails with `status` *)
ClientAttemptFails(self, status) ==
  /\ ~aborted
  /\ LoopRunning(self)
  /\ CallOnFailureCount(self, status)

NextLoop ==
  \/ \E m \in MaxFailuresArgs : NewCount(m)
  \/ \E src \in CountIds : CloneCount(src)
  \/ \E self \in CountIds, status \in Statuses : ClientAttemptFails(self, status)

SpecLoop == Init /\ [][NextLoop]_vars

----------------------------------------------------------------------------
(* Vocabulary of the properties *)

Transient(e) == ~IsPermanentFailure(e.status)
AllTransient(l) == \A k \in 1..Len(l) : Transient(l[k])
StatusesOf(l) == [k \in 1..Len(l) |-> l[k].status]
ResultsOf(l) == [k \in 1..Len(l) |-> l[k].result]
LastOf(l) == l[Len(l)]

(* i was the object of an OnFailure call in this step *)
Called(i) == i \in DOMAIN log /\ Len(log'[i]) = Len(log[i]) + 1

(* The result sequences OnFailure can give when the statuses are reported  *)
(* one after the other to the object `this`, nothing else touching it.     *)
RECURSIVE RunCount(_, _, _)
RunCount(this, statuses, bits) ==
  IF statuses = <<>> THEN {<<>>}
  ELSE UNION {{<<o.result>> \o rest : rest \in RunCount(o.this, Tail(statuses), bits)} :
                o \in {x \in CountOnFailure(this, Head(statuses), bits) : ~x.trap}}

----------------------------------------------------------------------------
(* C1: a LimitedErrorCountRetryPolicy with max_failures = m >= 0 that is   *)
(* given only transient failures answers true to each of the first m      *)
(* calls and false to call m+1 and to every later one.                    *)
C1_TransientRun ==
  \A i \in CountIds :
    (max_failures_[i] >= 0 /\ AllTransient(log[i])) =>
      \A k \in 1..Len(log[i]) : log[i][k].result = (k <= max_failures_[i])

C1_Witness ==
  \E i \in CountIds :
    /\ max_failures_[i] = 2
    /\ AllTransient(log[i])
    /\ Len(log[i]) = 4
    /\ ResultsOf(log[i]) = <<TRUE, TRUE, FALSE, FALSE>>

(* C2: for both policy classes, in every state, OnFailure with a status   *)
(* the classifier reports permanent returns false.                        *)
C2_PermanentIsFinal ==
  \A i \in Ids : \A k \in 1..Len(log[i]) :
    IsPermanentFailure(log[i][k].status) => ~log[i][k].result

(* a permanent failure was refused although budget or time was left *)
C2_Witness ==
  \E i \in Ids :
    /\ log[i] # <<>>
    /\ IsPermanentFailure(LastOf(log[i]).status)
    /\ ~LastOf(log[i]).result
    /\ IF i \in CountIds THEN failure_count_[i] < max_failures_[i]
                         ELSE clock < deadline_[i]

(* C3: a LimitedDurationRetryPolicy constructed at time t0 with           *)
(* max_duration d answers a transient failure with true exactly when the  *)
(* clock read in the call is strictly below t0 + d, whatever was reported *)
(* before.                                                                *)
C3_StrictlyBeforeDeadline ==
  [][\A i \in DurationIds :
       (Called(i) /\ Transient(LastOf(log'[i]))) =>
         (LastOf(log'[i]).result <=> clock < born[i] + max_duration_[i])]_vars

(* true before the deadline, then false in a call made exactly at it *)
C3_Witness ==
  \E i \in DurationIds :
    /\ max_duration_[i] >= 1
    /\ AllTransient(log[i])
    /\ ResultsOf(log[i]) = <<TRUE, TRUE, FALSE>>
    /\ clock = born[i] + max_duration_[i]

(* C4: clone() on a LimitedErrorCountRetryPolicy in any state returns an  *)
(* instance with the same max_failures and failure_count = 0; what the    *)
(* clone answers afterwards is what a freshly constructed policy answers. *)
C4_CountCloneIsFresh ==
  \A i \in CountIds :
    origin[i] # 0 =>
      /\ max_failures_[i] = max_failures_[origin[i]]
      /\ (log[i] = <<>> => failure_count_[i] = 0)
      /\ ResultsOf(log[i]) \in
           RunCount(CountCtor(max_failures_[origin[i]]), StatusesOf(log[i]), intBits)

(* a clone of an exhausted policy grants a retry *)
C4_Witness ==
  \E i \in CountIds :
    /\ origin[i] # 0
    /\ max_failures_[origin[i]] >= 1
    /\ failure_count_[origin[i]] > max_failures_[origin[i]]
    /\ log[i] # <<>>
    /\ LastOf(log[i]).result

(* C5: clone() on a LimitedDurationRetryPolicy at time tc returns an      *)
(* instance with the same max_duration and the deadline tc + max_duration,*)
(* not the deadline of the original.                                      *)
C5_DurationCloneDeadline ==
  \A i \in DurationIds :
    origin[i] # 0 =>
      /\ max_duration_[i] = max_duration_[origin[i]]
      /\ deadline_[i] = born[i] + max_duration_[origin[i]]

(* a clone taken after the original's deadline grants a retry *)
C5_Witness ==
  \E i \in DurationIds :
    /\ origin[i] # 0
    /\ born[i] >= deadline_[origin[i]]
    /\ deadline_[i] # deadline_[origin[i]]
    /\ log[i] # <<>>
    /\ LastOf(log[i]).result

(* C6: a LimitedErrorCountRetryPolicy constructed with max_failures = 0   *)
(* returns false for every transient failure, from the first call on.     *)
C6_ZeroNeverRetries ==
  \A i \in CountIds :
    max_failures_[i] = 0 => \A k \in 1..Len(log[i]) : ~log[i][k].result

C6_Witness ==
  \E i \in CountIds :
    /\ origin[i] = 0
    /\ arg[i] = 0
    /\ Len(log[i]) >= 2
    /\ AllTransient(log[i])
    /\ ~log[i][1].result

(* The members of instance j are the same before and after the step *)
MembersUnchanged(j) ==
  IF j \in CountIds
  THEN failure_count_'[j] = failure_count_[j] /\ max_failures_'[j] = max_failures_[j]
  ELSE max_duration_'[j] = max_duration_[j] /\ deadline_'[j] = deadline_[j]

(* The call just made on i gave what i would give if it were run alone:   *)
(* constructed from its argument at its time, then given its own calls.   *)
AnswersAsAlone(i) ==
  IF i \in CountIds
  THEN ResultsOf(log'[i]) \in
         RunCount(CountCtor(arg[i]), StatusesOf(log'[i]), intBits)
  ELSE LastOf(log'[i]).result =
         DurationOnFailure(DurationCtor(arg[i], born[i]),
                           LastOf(log'[i]).status, clock)

(* C7: however the OnFailure calls on an instance and on its clones are   *)
(* interleaved, a call on one instance changes no member of any other     *)
(* instance, clone() does not change its source, and every instance       *)
(* answers as if it were run alone.                                       *)
C7_InstancesAreIndependent ==
  [][\A j \in Ids : IF Called(j) THEN AnswersAsAlone(j)
                                 ELSE MembersUnchanged(j)]_vars

(* an exhausted original and a clone of it with budget left, both called *)
C7_Witness ==
  \E i \in CountIds : \E j \in CountIds :
    /\ origin[j] = i
    /\ Len(log[i]) >= 2
    /\ Len(log[j]) >= 2
    /\ failure_count_[i] # failure_count_[j]
    /\ LastOf(log[j]).result
    /\ ~LastOf(log[i]).result

(* C8, as stated: a negative max_failures is rejected at construction, so *)
(* no instance made from one exists on which OnFailure can be called.     *)
C8_NegativeRejected ==
  ~\E i \in CountIds : arg[i] < 0 /\ log[i] # <<>>

(* C8, as the code has it: the constructor accepts a negative             *)
(* max_failures and stores it unchanged (neither rejected nor clamped);   *)
(* OnFailure on such an instance returns false for every call.            *)
C8_NegativeAccepted ==
  \A i \in CountIds :
    arg[i] < 0 =>
      /\ max_failures_[i] = arg[i]
      /\ \A k \in 1..Len(log[i]) : ~log[i][k].result

C8_Witness ==
  \E i \in CountIds :
    /\ origin[i] = 0
    /\ arg[i] < 0
    /\ max_failures_[i] < 0
    /\ Len(log[i]) >= 2
    /\ Transient(log[i][1])

(* The scenario of C9: [transient, permanent, transient] on a policy      *)
(* constructed with max_failures = 3                                      *)
C9_Scenario(i) ==
  /\ origin[i] = 0
  /\ arg[i] = 3
  /\ StatusesOf(log[i]) = <<"UNAVAILABLE", "PERMISSION_DENIED", "UNAVAILABLE">>

(* C9, as stated: the scenario yields [true, false, false].               *)
C9_ScenarioAsStated ==
  \A i \in CountIds : C9_Scenario(i) => ResultsOf(log[i]) = <<TRUE, FALSE, FALSE>>

(* C9, as the code has it: the scenario yields [true, false, true].       *)
C9_ScenarioAsCoded ==
  \A i \in CountIds : C9_Scenario(i) => ResultsOf(log[i]) = <<TRUE, FALSE, TRUE>>

C9_Witness ==
  \E i \in CountIds : C9_Scenario(i) /\ failure_count_[i] = 2

(* The transient calls made on i, the permanent ones left out *)
TransientCalls(i) == SelectSeq(log'[i], Transient)

(* C10: OnFailure with a permanent status leaves failure_count_ and       *)
(* max_failures_ unchanged, so every transient call is answered as if the *)
(* permanent calls had never been made.                                   *)
C10_PermanentConsumesNothing ==
  [][\A i \in CountIds :
       Called(i) =>
         /\ IsPermanentFailure(LastOf(log'[i]).status) => MembersUnchanged(i)
         /\ ResultsOf(TransientCalls(i)) \in
              RunCount(CountCtor(max_failures_[i]),
                       StatusesOf(TransientCalls(i)), intBits)]_vars

(* the second retry is granted although a permanent failure came between *)
C10_Witness ==
  \E i \in CountIds :
    /\ max_failures_[i] = 2
    /\ StatusesOf(log[i]) = <<"UNAVAILABLE", "PERMISSION_DENIED", "UNAVAILABLE">>
    /\ ResultsOf(log[i]) = <<TRUE, FALSE, TRUE>>
    /\ failure_count_[i] = 2

(* C11: failure_count_ starts at 0, never decreases and grows by exactly   *)
(* 1 in every OnFailure call with a transient status, whether the call    *)
(* returns true or false; max_failures_ never changes.  A failure         *)
(* reported twice is counted twice.                                       *)
C11_CountOnlyGrows ==
  [][/\ \A n \in (DOMAIN failure_count_') \ CountIds : failure_count_'[n] = 0
     /\ \A i \in CountIds :
          /\ max_failures_'[i] = max_failures_[i]
          /\ failure_count_'[i] >= failure_count_[i]
          /\ (Called(i) /\ Transient(LastOf(log'[i]))) =>
               failure_count_'[i] = failure_count_[i] + 1]_vars

(* the count went on growing after the budget was used up *)
C11_Witness ==
  \E i \in CountIds :
    /\ max_failures_[i] = 1
    /\ AllTransient(log[i])
    /\ ResultsOf(log[i]) = <<TRUE, FALSE, FALSE>>
    /\ failure_count_[i] = 3

(* C12: deadline_ and max_duration_ of a LimitedDurationRetryPolicy are    *)
(* set at construction (deadline_ = clock at construction + max_duration) *)
(* and no OnFailure call and no clone() on the instance changes them.     *)
C12_DeadlineIsFixed ==
  [][/\ \A i \in DOMAIN max_duration_' :
          /\ max_duration_'[i] = arg'[i]
          /\ deadline_'[i] = born'[i] + arg'[i]
     /\ \A i \in DurationIds : MembersUnchanged(i)]_vars

(* called before and after the deadline, with both kinds of status, and  *)
(* cloned after the deadline                                             *)
C12_Witness ==
  \E i \in DurationIds : \E j \in DurationIds :
    /\ origin[j] = i
    /\ born[j] >= deadline_[i]
    /\ born[i] > 0
    /\ arg[i] >= 1
    /\ Len(log[i]) = 3
    /\ log[i][1].result
    /\ IsPermanentFailure(log[i][2].status)
    /\ Transient(log[i][3]) /\ ~log[i][3].result
    /\ deadline_[i] = born[i] + arg[i]

(* The number of transient calls among the first k - 1 of the log l *)
TransientBefore(l, k) == Cardinality({j \in 1..(k - 1) : Transient(l[j])})

(* C13: in any sequence of OnFailure calls on one                         *)
(* LimitedErrorCountRetryPolicy, a call with a transient status returns   *)
(* true exactly when fewer than max_failures_ transient calls were made   *)
(* before it; the permanent calls have no influence.                      *)
C13_TransientCountDecides ==
  \A i \in CountIds : \A k \in 1..Len(log[i]) :
    Transient(log[i][k]) =>
      (log[i][k].result <=> TransientBefore(log[i], k) < max_failures_[i])

C13_Witness ==
  \E i \in CountIds :
    /\ max_failures_[i] = 1
    /\ StatusesOf(log[i]) =
         <<"PERMISSION_DENIED", "UNAVAILABLE", "PERMISSION_DENIED", "UNAVAILABLE">>
    /\ ResultsOf(log[i]) = <<FALSE, TRUE, FALSE, FALSE>>

(* C16: with a clock that never goes back, once a                         *)
(* LimitedDurationRetryPolicy has returned false for a transient status,  *)
(* every later OnFailure call on it returns false.                        *)
C16_FalseStaysFalse ==
  \A i \in DurationIds : \A k \in 1..Len(log[i]) : \A n \in 1..Len(log[i]) :
    (k < n /\ Transient(log[i][k]) /\ ~log[i][k].result) => ~log[i][n].result

C16_Witness ==
  \E i \in DurationIds :
    /\ AllTransient(log[i])
    /\ ResultsOf(log[i]) = <<TRUE, FALSE, FALSE>>
    /\ clock > deadline_[i]

(* The number of calls of the log l that returned true *)
TrueCalls(l) == Cardinality({k \in 1..Len(l) : l[k].result})

(* C14: with failure_count_ a fixed-width int, over any sequence of      *)
(* OnFailure calls on one LimitedErrorCountRetryPolicy the number of     *)
(* calls that return true never exceeds max(max_failures_, 0): an        *)
(* exhausted policy never grants retries again.                          *)
C14_TrueCallsBounded ==
  \A i \in CountIds :
    TrueCalls(log[i]) <= (IF max_failures_[i] > 0 THEN max_failures_[i] ELSE 0)

(* The budget of instance i: max(max_failures_, 0) *)
Budget(i) == IF max_failures_[i] > 0 THEN max_failures_[i] ELSE 0

(* C15: a client loop that calls OnFailure once after every failed        *)
(* attempt, retries on true and stops on false, stops when driven by a    *)
(* LimitedErrorCountRetryPolicy even if every attempt fails: after at     *)
(* most max_failures + 1 OnFailure calls, at most max_failures retries,   *)
(* and at the first permanent failure.                                    *)
C15_LoopStops ==
  \A i \in CountIds :
    /\ Len(log[i]) <= Budget(i) + 1
    /\ TrueCalls(log[i]) <= Budget(i)
    /\ Len(log[i]) = Budget(i) + 1 => ~LoopRunning(i)
    /\ \A k \in 1..Len(log[i]) :
         IsPermanentFailure(log[i][k].status) => (k = Len(log[i]) /\ ~LoopRunning(i))

(* the loop used the whole budget and then gave up *)
C15_Witness ==
  \E i \in CountIds :
    /\ max_failures_[i] = 3
    /\ AllTransient(log[i])
    /\ ResultsOf(log[i]) = <<TRUE, TRUE, TRUE, FALSE>>
    /\ ~LoopRunning(i)
    /\ ~ENABLED ClientAttemptFails(i, "UNAVAILABLE")

(* The instance n was copy- or move-constructed in this step *)
CopiedOrMoved(n) ==
  n \in (DOMAIN made') \ (DOMAIN made) /\ made'[n] \in {"copy", "move"}

(* C17: copy-constructing and move-constructing a policy behave like      *)
(* clone(): the new LimitedErrorCountRetryPolicy has the source's         *)
(* max_failures_ and failure_count_ = 0, the new                          *)
(* LimitedDurationRetryPolicy has the source's max_duration_ and a        *)
(* deadline_ computed from the clock at the copy or move, and the members *)
(* of the source are left as they were, also by a move.                   *)
C17_CopyAndMoveAreFresh ==
  [][\A n \in DOMAIN made' :
       CopiedOrMoved(n) =>
         LET src == origin'[n] IN
           /\ MembersUnchanged(src)
           /\ IF src \in CountIds
              THEN /\ max_failures_'[n] = max_failures_[src]
                   /\ failure_count_'[n] = 0
                   /\ CountClone(CountObject(src)) =
                        [failure_count_ |-> failure_count_'[n],
                         max_failures_ |-> max_failures_'[n]]
              ELSE /\ max_duration_'[n] = max_duration_[src]
                   /\ deadline_'[n] = clock + max_duration_[src]
                   /\ DurationClone(DurationObject(src), clock) =
                        [max_duration_ |-> max_duration_'[n],
                         deadline_ |-> deadline_'[n]]]_vars

(* a policy moved from an exhausted one starts afresh, the source keeps  *)
(* its count                                                             *)
C17_Witness ==
  \E n \in CountIds :
    /\ made[n] = "move"
    /\ max_failures_[n] >= 1
    /\ failure_count_[origin[n]] > max_failures_[origin[n]]
    /\ Len(log[origin[n]]) = failure_count_[origin[n]]
    /\ ResultsOf(log[n]) = <<TRUE>>

====
